---- MODULE Spec2Model ----
(***************************************************************************)
(* A model of xmlexact.js: the definition-driven parsing engine (_fromXml), *)
(* value coercion (_convertFromXsdType) and the XSD compiler                *)
(* (_elementToDefinition).                                                  *)
(*                                                                          *)
(* Representation.  A JavaScript string is a sequence of tokens; the        *)
(* characters the code inspects ("$", ":", "?", " ", ".", digits) are       *)
(* tokens of their own and every other token is an indivisible run of       *)
(* other characters (a url, which the code never takes apart, is one        *)
(* token), so s + t is s \o t.  A JavaScript value is a record    *)
(* [t, s, n, r, items] whose tag t says which payload is meant.  An object  *)
(* is a function from property keys (strings) to values; objects that the  *)
(* code shares by reference live in `heap` and are named by their index.   *)
(***************************************************************************)
EXTENDS Integers, Sequences, FiniteSets, TLC

VARIABLES
  input,                    \* what the caller passes and the tokenizer may deliver
  heap,                     \* every object allocated so far, by reference
  inlineAttributes,         \* _fromXml parameter
  convertTypes,             \* _fromXml parameter
  result,                   \* reference of `result`
  currentValue,             \* the text buffer
  currentObject,            \* reference of the object being filled
  currentType,              \* definition[name + '$type'] of the last start tag
  objects,                  \* stack of references
  names,                    \* stack of strings
  definitions,              \* stack of references
  orders,                   \* stack of arrays of strings
  namespaces,               \* { nsAlias: url } seen on the wire
  definitionNamespaces,     \* { nsAlias: url } declared by the definition
  definitionNamespaceUrls,  \* { url: nsAlias } declared by the definition
  logged,                   \* number of console.log calls
  lastEvent,                \* the event the tokenizer delivered last
  open,                     \* observer: one record per open element
  shadowValue,              \* observer: the text buffer had no stray end tag come
  nStart,                   \* start tags delivered so far
  nText,                    \* text chunks delivered so far
  nAttr,                    \* attributes delivered so far
  call                      \* a call of a pure function: arguments and outcome

vars == <<input, heap, inlineAttributes, convertTypes, result, currentValue,
          currentObject, currentType, objects, names, definitions, orders,
          namespaces, definitionNamespaces, definitionNamespaceUrls, logged,
          lastEvent, open, shadowValue, nStart, nText, nAttr, call>>

parserVars == <<heap, inlineAttributes, convertTypes, result, currentValue,
                currentObject, currentType, objects, names, definitions, orders,
                namespaces, definitionNamespaces, definitionNamespaceUrls, logged,
                lastEvent, open, shadowValue, nStart, nText, nAttr>>

-----------------------------------------------------------------------------
(* Bounds of the exploration. *)

\* start tags, text chunks and attributes the tokenizer delivers in one parse
MaxEvents == 4
\* end tags delivered with no element open
MaxStrays == 1

-----------------------------------------------------------------------------
(* JavaScript values. *)

Val(t, s, n, r, items) == [t |-> t, s |-> s, n |-> n, r |-> r, items |-> items]

Undefined == Val("undefined", <<>>, 0, 0, <<>>)
Null == Val("null", <<>>, 0, 0, <<>>)
StrV(s) == Val("string", s, 0, 0, <<>>)
NumV(n) == Val("number", <<>>, n, 0, <<>>)
NaN == Val("NaN", <<>>, 0, 0, <<>>)
BoolV(b) == Val("boolean", <<>>, IF b THEN 1 ELSE 0, 0, <<>>)
\* parseFloat's result: integer part n and the fraction digits s
FloatV(n, frac) == Val("float", frac, n, 0, <<>>)
BufV(bytes) == Val("buffer", <<>>, 0, 0, bytes)
RefV(r) == Val("object", <<>>, 0, r, <<>>)
ArrV(items) == Val("array", <<>>, 0, 0, items)

IsArray(v) == v.t = "array"
\* typeof v === 'object'
TypeofObject(v) == v.t \in {"object", "array", "null", "buffer"}
\* the truthiness of a value
Truthy(v) ==
  CASE v.t \in {"undefined", "null", "NaN"} -> FALSE
    [] v.t = "string" -> v.s # <<>>
    [] v.t \in {"number", "boolean"} -> v.n # 0
    [] v.t = "float" -> ~(v.n = 0 /\ v.s = <<>>)
    [] OTHER -> TRUE

EmptyObj == [k \in {} |-> Undefined]
Has(o, k) == k \in DOMAIN o
Get(o, k) == IF k \in DOMAIN o THEN o[k] ELSE Undefined
Put(o, k, v) == [x \in (DOMAIN o) \cup {k} |-> IF x = k THEN v ELSE o[x]]
Del(o, k) == [x \in (DOMAIN o) \ {k} |-> o[x]]

Last(s) == s[Len(s)]
Front(s) == SubSeq(s, 1, Len(s) - 1)

-----------------------------------------------------------------------------
(* Strings. *)

Digits == {"0", "1", "2", "3", "4", "5", "6", "7", "8", "9"}
DigitVal(d) ==
  CASE d = "0" -> 0 [] d = "1" -> 1 [] d = "2" -> 2 [] d = "3" -> 3
    [] d = "4" -> 4 [] d = "5" -> 5 [] d = "6" -> 6 [] d = "7" -> 7
    [] d = "8" -> 8 [] d = "9" -> 9

\* s.split(':')
RECURSIVE Split(_)
Split(s) ==
  IF \A i \in 1..Len(s) : s[i] # ":"
  THEN <<s>>
  ELSE LET i == CHOOSE i \in 1..Len(s) :
                  s[i] = ":" /\ \A j \in 1..(i - 1) : s[j] # ":"
       IN <<SubSeq(s, 1, i - 1)>> \o Split(SubSeq(s, i + 1, Len(s)))

\* key.match(/^xmlns:(.+)$/): the captured group, or << >> when there is no match
XmlnsMatch(key) ==
  IF Len(key) >= 3 /\ key[1] = "xmlns" /\ key[2] = ":"
  THEN SubSeq(key, 3, Len(key))
  ELSE <<>>

\* value.match(/^\s*$/)
IsBlank(s) == \A i \in 1..Len(s) : s[i] = " "

\* s.trim()
RECURSIVE TrimLeft(_)
TrimLeft(s) == IF s # <<>> /\ s[1] = " " THEN TrimLeft(Tail(s)) ELSE s
RECURSIVE TrimRight(_)
TrimRight(s) == IF s # <<>> /\ Last(s) = " " THEN TrimRight(Front(s)) ELSE s
Trim(s) == TrimRight(TrimLeft(s))

\* the longest prefix of s made of digits
RECURSIVE DigitPrefix(_)
DigitPrefix(s) ==
  IF s # <<>> /\ s[1] \in Digits THEN <<s[1]>> \o DigitPrefix(Tail(s)) ELSE <<>>

RECURSIVE DigitsToInt(_)
DigitsToInt(ds) ==
  IF ds = <<>> THEN 0 ELSE 10 * DigitsToInt(Front(ds)) + DigitVal(Last(ds))

\* the decimal digits of a natural number
RECURSIVE IntToDigits(_)
IntToDigits(n) ==
  CASE n = 0 -> <<"0">> [] n = 1 -> <<"1">> [] n = 2 -> <<"2">> [] n = 3 -> <<"3">>
    [] n = 4 -> <<"4">> [] n = 5 -> <<"5">> [] n = 6 -> <<"6">> [] n = 7 -> <<"7">>
    [] n = 8 -> <<"8">> [] n = 9 -> <<"9">>
    [] OTHER -> IntToDigits(n \div 10) \o IntToDigits(n % 10)

\* Number.MAX_VALUE, and String(Number.MAX_VALUE) = "1.7976931348623157e+308"
MaxValue == Val("number", <<"MAX_VALUE">>, 0, 0, <<>>)
MaxValueStr == <<"1", ".", "7", "9", "7", "6", "9", "3", "1", "3", "4", "8", "6",
                 "2", "3", "1", "5", "7", "e", "+", "3", "0", "8">>

TrueText == <<"t", "r", "u", "e">>
FalseText == <<"f", "a", "l", "s", "e">>

\* String(v), as a property key or an argument of parseInt needs it
ToStr(v) ==
  CASE v.t = "string" -> v.s
    [] v.t = "undefined" -> <<"undefined">>
    [] v.t = "null" -> <<"null">>
    [] v.t = "NaN" -> <<"NaN">>
    [] v.t = "number" ->
         IF v = MaxValue THEN MaxValueStr
         ELSE IF v.n < 0 THEN <<"-">> \o IntToDigits(0 - v.n) ELSE IntToDigits(v.n)
    [] v.t = "boolean" -> IF v.n = 1 THEN TrueText ELSE FalseText
    [] OTHER -> <<"object">>

\* parseInt(value, 10): leading blanks, a sign, then the leading digits
ParseInt(s) ==
  LET t == TrimLeft(s)
      neg == t # <<>> /\ t[1] = "-"
      u == IF t # <<>> /\ t[1] \in {"-", "+"} THEN Tail(t) ELSE t
      ds == DigitPrefix(u)
  IN IF ds = <<>> THEN NaN
     ELSE NumV(IF neg THEN 0 - DigitsToInt(ds) ELSE DigitsToInt(ds))

\* drop the zeros that end a fraction
RECURSIVE DropZeros(_)
DropZeros(ds) == IF ds # <<>> /\ Last(ds) = "0" THEN DropZeros(Front(ds)) ELSE ds

\* parseFloat(value): leading blanks, a sign, digits, and a fraction
ParseFloat(s) ==
  LET t == TrimLeft(s)
      neg == t # <<>> /\ t[1] = "-"
      u == IF t # <<>> /\ t[1] \in {"-", "+"} THEN Tail(t) ELSE t
      ds == DigitPrefix(u)
      rest == SubSeq(u, Len(ds) + 1, Len(u))
      fs == IF rest # <<>> /\ rest[1] = "." THEN DigitPrefix(Tail(rest)) ELSE <<>>
      n == DigitsToInt(ds)
  IN IF ds = <<>> /\ fs = <<>> THEN NaN
     ELSE FloatV(IF neg THEN 0 - n ELSE n, DropZeros(fs))

\* Buffer.from(value, 'hex'): one byte per pair of hex digits, up to the
\* first pair that is not one (only decimal digits occur as tokens)
RECURSIVE HexBytes(_)
HexBytes(s) ==
  IF Len(s) >= 2 /\ s[1] \in Digits /\ s[2] \in Digits
  THEN <<NumV(16 * DigitVal(s[1]) + DigitVal(s[2]))>>
         \o HexBytes(SubSeq(s, 3, Len(s)))
  ELSE <<>>

\* Buffer.from(value, 'base64'): every token of the text stands for one
\* base64 character; three bytes for each four characters, blanks skipped
\* (the bytes' values are not modelled, only their number)
RECURSIVE Base64Chars(_)
Base64Chars(s) ==
  IF s = <<>> THEN <<>>
  ELSE IF s[1] = " " THEN Base64Chars(Tail(s))
       ELSE <<s[1]>> \o Base64Chars(Tail(s))
Base64Bytes(s) ==
  LET cs == Base64Chars(s)
      n == (Len(cs) * 3) \div 4
  IN [i \in 1..n |-> NumV(0)]

-----------------------------------------------------------------------------
(* Value coercion: _convertFromXsdType. *)

FloatTypes == {"decimal", "double", "float"}
IntegerTypes == {"byte", "int", "integer", "long", "negativeInteger",
                 "nonNegativeInteger", "nonPositiveInteger", "short",
                 "unsignedByte", "unsignedInt", "unsignedLong", "unsignedShort"}
\* the names _xsdTypeLookup knows
KnownTypes == {"boolean", "base64Binary", "hexBinary", "anyURI", "language",
               "normalizedString", "string", "token", "empty", "any"}
              \cup FloatTypes \cup IntegerTypes

\* a type name that is one token, or "" otherwise
TypeName(type) == IF type.t = "string" /\ Len(type.s) = 1 THEN type.s[1] ELSE ""

KeepArrayType(type) == type

\* if (Array.isArray(type)) type = type[0]
UnwrapArrayType(type) ==
  IF IsArray(type)
  THEN IF Len(type.items) > 0 THEN type.items[1] ELSE Undefined
  ELSE type

\* type && type.endsWith('?')
IsNullableType(type) == Truthy(type) /\ type.t = "string" /\ Last(type.s) = "?"

\* the dispatch on the type name, which ends in `return value`
ConvertByNameNoFallback(type, value) ==
  LET n == TypeName(type)
  IN CASE n = "boolean" -> BoolV(value = TrueText)
       [] n \in FloatTypes -> ParseFloat(value)
       [] n \in IntegerTypes -> ParseInt(value)
       [] n = "base64Binary" -> BufV(Base64Bytes(value))
       [] n = "hexBinary" -> BufV(HexBytes(value))
       [] n \in KnownTypes -> StrV(value)
       [] OTHER -> Undefined

ConvertByName(type, value) ==
  LET n == TypeName(type)
  IN CASE n = "boolean" -> BoolV(value = TrueText)
       [] n \in FloatTypes -> ParseFloat(value)
       [] n \in IntegerTypes -> ParseInt(value)
       [] n = "base64Binary" -> BufV(Base64Bytes(value))
       [] n = "hexBinary" -> BufV(HexBytes(value))
       [] OTHER -> StrV(value)

\* _convertFromXsdType(type, value); no path of it throws
ConvertFromXsdType(type, value) ==
  LET t1 == UnwrapArrayType(type)
      t2 == IF IsNullableType(t1) THEN StrV(Front(t1.s)) ELSE t1
  IN IF IsNullableType(t1) /\ IsBlank(value)
     THEN Null
     ELSE ConvertByName(t2, value)

\* _compareArray(array1, array2)
CompareArray(array1, array2) ==
  IF ~Truthy(array1) \/ ~Truthy(array2) THEN FALSE
  ELSE IF Len(array1.items) # Len(array2.items) THEN FALSE
  ELSE \A i \in 1..Len(array1.items) : array1.items[i] = array2.items[i]

-----------------------------------------------------------------------------
(* The parsing engine: _fromXml. *)

Attributes == <<"$", "attributes">>
Type == <<"$", "type">>
Namespace == <<"$", "namespace">>
Order == <<"$", "order">>
InlineNamespace == <<"namespace", "$">>
InlineText == <<"$">>

\* let nsAlias = name.split(':'); the local name
LocalName(name) == IF Len(Split(name)) > 1 THEN Split(name)[2] ELSE name
\* ... and the alias, undefined when there is none
NsAlias(name) == IF Len(Split(name)) > 1 THEN StrV(Split(name)[1]) ELSE Undefined

\* definition[name + '$attributes'] || {}
DefinitionAttributes(h, definition, name) ==
  LET v == Get(definition, name \o Attributes)
  IN IF Truthy(v) THEN h[v.r] ELSE EmptyObj

\* the xmlns:* attributes of the tag alone, the earlier aliases dropped
ExtractNamespacesScoped(ns, attributes) ==
  LET als == {XmlnsMatch(k) : k \in DOMAIN attributes} \ {<<>>}
  IN [a \in als |-> attributes[<<"xmlns", ":">> \o a]]

\* Extract namespaces for alias lookup: the xmlns:* attributes of the tag
ExtractNamespaces(ns, attributes) ==
  LET als == {XmlnsMatch(k) : k \in DOMAIN attributes} \ {<<>>}
  IN [a \in (DOMAIN ns) \cup als |->
        IF a \in als THEN attributes[<<"xmlns", ":">> \o a] ELSE ns[a]]

\* ... and those of the definition; the inverse mapping keeps one alias per url
ExtractDefinitionNamespaceUrls(urls, definitionAttributes) ==
  LET als == {XmlnsMatch(k) : k \in DOMAIN definitionAttributes} \ {<<>>}
      new == {ToStr(definitionAttributes[<<"xmlns", ":">> \o a]) : a \in als}
  IN [u \in (DOMAIN urls) \cup new |->
        IF u \in new
        THEN StrV(CHOOSE a \in als :
                    ToStr(definitionAttributes[<<"xmlns", ":">> \o a]) = u)
        ELSE urls[u]]

\* if (nsAlias && nsUrl != definitionNsUrl)
IsForeignDeclaredOnly(nsAlias, nsUrl, definitionNsUrl) ==
  Truthy(nsAlias) /\ Truthy(nsUrl) /\ nsUrl # definitionNsUrl

IsForeign(nsAlias, nsUrl, definitionNsUrl) ==
  Truthy(nsAlias) /\ nsUrl # definitionNsUrl

\* the definitionValue an attribute is compared with
DefinitionValue(key, value, ns, defUrls, definitionAttributes) ==
  LET nameNsAlias == Split(key)
  IN IF Len(nameNsAlias) > 1
     THEN IF nameNsAlias[1] = <<"xmlns">>
          THEN IF Truthy(Get(defUrls, ToStr(value))) THEN value ELSE StrV(<<>>)
          ELSE LET nsUrl == Get(ns, nameNsAlias[1])
                   definitionNsAlias == Get(defUrls, ToStr(nsUrl))
               IN IF Truthy(definitionNsAlias)
                  THEN Get(definitionAttributes,
                           ToStr(definitionNsAlias) \o <<":">> \o nameNsAlias[2])
                  ELSE StrV(<<>>)
     ELSE Get(definitionAttributes, key)

\* the value a retained attribute is left with
RetainedAttribute(key, value, definitionAttributes) ==
  LET attributeType == Get(definitionAttributes, key \o Type)
  IN IF Truthy(attributeType)
     THEN ConvertFromXsdType(attributeType, value.s)
     ELSE value

\* Filter attributes so we only include ones not in definition
FilterAttributes(attributes, ns, defUrls, definitionAttributes) ==
  LET kept == {k \in DOMAIN attributes :
                 attributes[k] #
                   DefinitionValue(k, attributes[k], ns, defUrls, definitionAttributes)}
  IN [k \in kept |-> RetainedAttribute(k, attributes[k], definitionAttributes)]

\* Handle attributes, inline: nextObject['$' + key] = attributes[key]
InlineAttributes(nextObject, attributes) ==
  [k \in (DOMAIN nextObject) \cup {<<"$">> \o a : a \in DOMAIN attributes} |->
     IF k[1] = "$" /\ Tail(k) \in DOMAIN attributes
     THEN attributes[Tail(k)]
     ELSE nextObject[k]]

\* Handle attributes, not inline: currentObject[name + '$attributes']
AttachAttributes(obj, name, attrRef, type) ==
  LET key == name \o Attributes
  IN IF Has(obj, key)
     THEN IF IsArray(obj[key])
          THEN Put(obj, key, ArrV(Append(obj[key].items, RefV(attrRef))))
          ELSE Put(obj, key, ArrV(<<obj[key], RefV(attrRef)>>))
     ELSE IF IsArray(type)
          THEN Put(obj, key, ArrV(<<RefV(attrRef)>>))
          ELSE Put(obj, key, RefV(attrRef))

\* Handle tag without the test of the declared type
HandleTagUntyped(obj, name, nextRef, type) ==
  IF Has(obj, name)
  THEN IF IsArray(obj[name])
       THEN Put(obj, name, ArrV(Append(obj[name].items, RefV(nextRef))))
       ELSE Put(obj, name, ArrV(<<obj[name], RefV(nextRef)>>))
  ELSE Put(obj, name, RefV(nextRef))

\* Handle tag: currentObject[name]
HandleTag(obj, name, nextRef, type) ==
  IF Has(obj, name)
  THEN IF IsArray(obj[name])
       THEN Put(obj, name, ArrV(Append(obj[name].items, RefV(nextRef))))
       ELSE Put(obj, name, ArrV(<<obj[name], RefV(nextRef)>>))
  ELSE IF IsArray(type)
       THEN Put(obj, name, ArrV(<<RefV(nextRef)>>))
       ELSE Put(obj, name, RefV(nextRef))

\* Save order
SaveOrder(ords, depth, obj, name) ==
  IF Len(ords) <= depth
  THEN Append(ords, <<name>>)
  ELSE IF ~IsArray(obj[name])
       THEN [ords EXCEPT ![depth + 1] = Append(@, name)]
       ELSE ords

\* An event of the tokenizer, as the observers record it.
Event(kind, name, attributes, data) ==
  [kind |-> kind, name |-> name, attributes |-> attributes, data |-> data]
NoEvent == Event("none", <<>>, EmptyObj, <<>>)

\* The observer's record of an open element: the object and the definition
\* that were current when its start tag arrived, the events delivered
\* inside it, and its children closed so far.
Frame(object, definition, name, start) ==
  [object |-> object, definition |-> definition, name |-> name,
   start |-> start, trace |-> <<>>, kids |-> <<>>]

\* every open element sees the event
Seen(frames, ev) == [i \in 1..Len(frames) |-> [frames[i] EXCEPT !.trace = Append(@, ev)]]

\* definitions.push(definition[name] || {}): the heap once the definition
\* to descend to exists
DescendMemoized(h, definitionRef, name) ==
  IF Truthy(Get(h[definitionRef], name))
  THEN h
  ELSE [h EXCEPT ![definitionRef] = Put(@, name, RefV(Len(h) + 1))] \o <<EmptyObj>>

Descend(h, definitionRef, name) ==
  IF Truthy(Get(h[definitionRef], name)) THEN h ELSE h \o <<EmptyObj>>

\* parser.on('startElement', function(name, attributes) {...})
StartElement(wireName, attributes) ==
  LET name == LocalName(wireName)
      nsAlias == NsAlias(wireName)
      definitionRef == Last(definitions)
      definition == heap[definitionRef]
      definitionAttributes == DefinitionAttributes(heap, definition, name)
      type == Get(definition, name \o Type)
      nextRef == Len(heap) + 1
      ns1 == ExtractNamespaces(namespaces, attributes)
      defUrls1 == ExtractDefinitionNamespaceUrls(definitionNamespaceUrls,
                                                 definitionAttributes)
      defNs1 == ExtractNamespaces(definitionNamespaces, definitionAttributes)
      nsUrl == Get(ns1, ToStr(nsAlias))
      definitionNsUrl == Get(defNs1, ToStr(Get(definition, name \o Namespace)))
      foreign == IsForeign(nsAlias, nsUrl, definitionNsUrl)
      \* the namespace marker
      next1 == IF foreign /\ inlineAttributes
               THEN Put(EmptyObj, InlineNamespace, nsAlias)
               ELSE EmptyObj
      cur1 == IF foreign /\ ~inlineAttributes
              THEN Put(heap[currentObject], name \o Namespace, nsAlias)
              ELSE heap[currentObject]
      \* the attributes
      filtered == FilterAttributes(attributes, ns1, defUrls1, definitionAttributes)
      some == DOMAIN filtered # {}
      stored == some /\ ~inlineAttributes
      attrRef == nextRef + 1
      next2 == IF some /\ inlineAttributes
               THEN InlineAttributes(next1, filtered)
               ELSE next1
      cur2 == IF stored THEN AttachAttributes(cur1, name, attrRef, type) ELSE cur1
      \* the tag
      cur3 == HandleTag(cur2, name, nextRef, type)
      \* definitions.push(definition[name] || {})
      sub == Get(definition, name)
      heap1 == [heap EXCEPT ![currentObject] = cur3] \o <<next2>>
      heap2 == IF stored THEN heap1 \o <<filtered>> ELSE heap1
      heap3 == Descend(heap2, definitionRef, name)
      ev == Event("start", wireName, attributes, <<>>)
  IN /\ heap' = heap3
     /\ currentType' = type
     /\ currentValue' = <<>>
     /\ namespaces' = ns1
     /\ definitionNamespaceUrls' = defUrls1
     /\ definitionNamespaces' = defNs1
     /\ orders' = SaveOrder(orders, Len(names), cur3, name)
     /\ names' = Append(names, name)
     /\ objects' = Append(objects, currentObject)
     /\ definitions' = Append(definitions, IF Truthy(sub) THEN sub.r ELSE Len(heap3))
     /\ currentObject' = nextRef
     /\ lastEvent' = ev
     /\ open' = Append(Seen(open, ev), Frame(currentObject, definitionRef, name, ev))
     /\ shadowValue' = <<>>
     /\ nStart' = nStart + 1
     /\ nAttr' = nAttr + Cardinality(DOMAIN attributes)
     /\ UNCHANGED <<input, inlineAttributes, convertTypes, result, logged, nText, call>>

\* parser.on('text', function(data) {...})
Text(data) ==
  /\ currentValue' = currentValue \o data
  /\ shadowValue' = shadowValue \o data
  /\ lastEvent' = Event("text", <<>>, EmptyObj, data)
  /\ open' = Seen(open, Event("text", <<>>, EmptyObj, data))
  /\ nText' = nText + 1
  /\ UNCHANGED <<input, heap, inlineAttributes, convertTypes, result, currentObject,
                 currentType, objects, names, definitions, orders, namespaces,
                 definitionNamespaces, definitionNamespaceUrls, logged, nStart,
                 nAttr, call>>

\* the value an end tag resolves from the text buffer
ConvertedValue(convert, type, value) ==
  IF convert THEN ConvertFromXsdType(type, value) ELSE StrV(value)

\* an array of names, as a value
NamesV(order) == ArrV([i \in 1..Len(order) |-> StrV(order[i])])

\* the order comparison of an end tag: the enclosing object afterwards
AttachOrder(obj, name, order, definedOrder) ==
  IF Len(order) > 1
  THEN IF ~CompareArray(definedOrder, NamesV(order))
       THEN Put(obj, name \o Order, NamesV(order))
       ELSE obj
  ELSE obj

\* The value assignment of an end tag, on heap h whose object `ref` is the
\* enclosing object: the heap afterwards.
AssignValue(h, ref, name, convert, type, value) ==
  LET obj == h[ref]
      v == Get(obj, name)
  IN IF IsArray(v)
     THEN LET slot == Last(v.items)
              convertedValue == ConvertedValue(convert, type, value)
          IN IF DOMAIN h[slot.r] = {}
             THEN [h EXCEPT ![ref] =
                     Put(obj, name, ArrV(Append(Front(v.items), convertedValue)))]
             ELSE [h EXCEPT ![slot.r] = Put(@, InlineText, convertedValue)]
     ELSE IF TypeofObject(v)
          THEN IF DOMAIN h[v.r] = {}
               THEN [h EXCEPT ![ref] =
                       Put(obj, name, ConvertedValue(convert, type, value))]
               ELSE IF Trim(value) # <<>>
                    THEN [h EXCEPT ![v.r] =
                            Put(@, InlineText, ConvertedValue(convert, type, value))]
                    ELSE h
          ELSE h

\* currentObject = objects.pop(); definitions.pop(); names.pop()
Pop(stack) == Front(stack)
KeepDefinitions(stack) == stack
PopDefinitions(stack) == Front(stack)

\* the observer's bookkeeping of an end tag
Closed(frames, ev) ==
  LET f == Last(frames)
      rest == Seen(Front(frames), ev)
      kid == [name |-> f.name, start |-> f.start, trace |-> f.trace,
              object |-> f.object, definition |-> f.definition,
              children |-> [i \in 1..Len(f.kids) |-> f.kids[i].name]]
  IN [rest EXCEPT ![Len(rest)].kids = Append(@, kid)]

\* parser.on('endElement', function(name) {...}) with an open frame
EndElement(wireName) ==
  LET name == LocalName(wireName)
      parentRef == Last(objects)
      defs1 == PopDefinitions(definitions)
      popOrder == Len(names) < Len(orders)
      definedOrder == Get(heap[Last(defs1)], name \o Order)
      heap1 == IF popOrder
               THEN [heap EXCEPT ![parentRef] =
                       AttachOrder(@, name, Last(orders), definedOrder)]
               ELSE heap
      ev == Event("end", wireName, EmptyObj, <<>>)
  IN /\ Len(objects) > 0
     /\ currentObject' = parentRef
     /\ objects' = Pop(objects)
     /\ definitions' = defs1
     /\ orders' = IF popOrder THEN Front(orders) ELSE orders
     /\ names' = Pop(names)
     /\ heap' = AssignValue(heap1, parentRef, name, convertTypes, currentType,
                            currentValue)
     /\ currentValue' = <<>>
     /\ shadowValue' = <<>>
     /\ lastEvent' = ev
     /\ open' = Closed(open, ev)
     /\ UNCHANGED <<input, inlineAttributes, convertTypes, result, currentType,
                    namespaces, definitionNamespaces, definitionNamespaceUrls,
                    logged, nStart, nText, nAttr, call>>

\* ... and with none: console.log('No objects in objects')
EndElementUnderflowPopping(wireName) ==
  /\ Len(objects) = 0
  /\ logged < MaxStrays
  /\ logged' = logged + 1
  /\ definitions' = Pop(definitions)
  /\ currentValue' = <<>>
  /\ lastEvent' = Event("stray", wireName, EmptyObj, <<>>)
  /\ UNCHANGED <<input, heap, inlineAttributes, convertTypes, result, currentObject,
                 currentType, objects, names, orders, namespaces,
                 definitionNamespaces, definitionNamespaceUrls, open, shadowValue,
                 nStart, nText, nAttr, call>>

EndElementUnderflow(wireName) ==
  /\ Len(objects) = 0
  /\ logged < MaxStrays
  /\ logged' = logged + 1
  /\ currentValue' = <<>>
  /\ lastEvent' = Event("stray", wireName, EmptyObj, <<>>)
  /\ UNCHANGED <<input, heap, inlineAttributes, convertTypes, result, currentObject,
                 currentType, objects, names, definitions, orders, namespaces,
                 definitionNamespaces, definitionNamespaceUrls, open, shadowValue,
                 nStart, nText, nAttr, call>>

-----------------------------------------------------------------------------
(* The XSD compiler: _generateDefinitionXsd and _elementToDefinition.  The  *)
(* schema is the object tree the parse of the XSD text made; the compiler  *)
(* shares none of its objects, so they are held by value.                  *)

\* an object held by value, and its properties ('' has none)
ObjV(o) == Val("object", <<>>, 0, 0, <<o>>)
IsObjV(v) == v.t = "object" /\ v.items # <<>>
Fields(v) == IF IsObjV(v) THEN v.items[1] ELSE EmptyObj
\* v[key] of a value that is not undefined or null
Prop(v, key) == Get(Fields(v), key)
\* the key '$' + name an attribute has in the parse with inline attributes
Attr(name) == <<"$", name>>

\* how a call ends
Returned(v) == [status |-> "returned", value |-> v, error |-> ""]
Thrown(e) == [status |-> "thrown", value |-> Undefined, error |-> e]

XsdNamespace == <<"http://www.w3.org/2001/XMLSchema">>
\* for (let i = 0; i <= 3; i++) { if (i === 3) throw ...
MaxTypeNesting == 3
NestingError == "Type reference nested more than 3 levels"

\* parseInt(v, 10) of any value
ParseIntV(v) == ParseInt(ToStr(v))
\* v > n in JavaScript: false for NaN
GreaterThan(v, n) == v.t = "number" /\ v.n > n

\* _namespaceLookup(name, namespaces)
NamespaceLookup(name, nss) ==
  LET ns == Split(name)
  IN IF Len(ns) > 1
     THEN IF Has(nss, <<"xmlns", ":">> \o ns[1])
          THEN Returned([name |-> ns[2], ns |-> nss[<<"xmlns", ":">> \o ns[1]]])
          ELSE Thrown("Could not find namespace alias")
     ELSE Returned([name |-> name, ns |-> StrV(<<>>)])

\* _extractAndAddNamespaces(element, originalNamespaces): the keys of
\* element that match /^\$(xmlns:.+)$/ are added to a copy of the namespaces
ExtractAndAddNamespaces(element, originalNamespaces) ==
  LET declared == {k \in DOMAIN element :
                     Len(k) >= 4 /\ k[1] = "$" /\ k[2] = "xmlns" /\ k[3] = ":"}
  IN [k \in (DOMAIN originalNamespaces) \cup {Tail(k) : k \in declared} |->
        IF <<"$">> \o k \in declared THEN element[<<"$">> \o k]
        ELSE originalNamespaces[k]]

\* namespaceToAlias[namespaces[key]] = key for every key (the last key
\* inserted wins when two are bound to one url; the schemas explored bind
\* each url once)
NamespaceToAlias(nss) ==
  [url \in {ToStr(nss[k]) : k \in DOMAIN nss} |->
     StrV(CHOOSE k \in DOMAIN nss : ToStr(nss[k]) = url)]

\* alias.replace(/^xmlns:/, '')
StripXmlns(alias) ==
  IF Len(alias) >= 2 /\ alias[1] = "xmlns" /\ alias[2] = ":"
  THEN SubSeq(alias, 3, Len(alias))
  ELSE alias

\* the minLength and maxLength a restriction leaves, given those set before
RestrictionLengths(restriction, lengths) ==
  IF Truthy(Prop(restriction, <<"length">>))
  THEN LET n == ParseIntV(Prop(Prop(restriction, <<"length">>), Attr("value")))
       IN [minLength |-> n, maxLength |-> n]
  ELSE [maxLength |->
          IF Truthy(Prop(restriction, <<"maxLength">>))
          THEN ParseIntV(Prop(Prop(restriction, <<"maxLength">>), Attr("value")))
          ELSE lengths.maxLength,
        minLength |->
          IF Truthy(Prop(restriction, <<"minLength">>))
          THEN ParseIntV(Prop(Prop(restriction, <<"minLength">>), Attr("value")))
          ELSE lengths.minLength]

NoLengths == [minLength |-> NumV(0), maxLength |-> NumV(0)]

\* what the type resolution loop leaves: the primitive's name or the
\* subResult, and the lengths
Resolved(name, subResult, lengths) ==
  [status |-> "returned", error |-> "", name |-> name, subResult |-> subResult,
   lengths |-> lengths]
Unresolved(e) ==
  [status |-> "thrown", error |-> e, name |-> Undefined, subResult |-> Undefined,
   lengths |-> NoLengths]

\* if (subResult) { ... }: the compiled type merged into the element's result
MergeSubResult(res, name, subResult) ==
  LET sub == Fields(subResult)
      own == {k \in DOMAIN sub : k[1] # "$"}
      nested == [k \in own |-> sub[k]]
      outer == {k \in DOMAIN sub : k[1] = "$"}
  IN IF ~Truthy(subResult) THEN res
     ELSE IF Truthy(Get(sub, Attr("type")))
          THEN Put(res, name \o Type, sub[Attr("type")])
          ELSE [k \in (DOMAIN res) \cup {name} \cup {name \o o : o \in outer} |->
                  IF k = name THEN ObjV(nested)
                  ELSE IF \E o \in outer : k = name \o o
                       THEN sub[CHOOSE o \in outer : k = name \o o]
                       ELSE res[k]]

\* let maxOccurs = parseInt(... ? Number.MAX_VALUE : element.$maxOccurs || 0, 10)
MaxOccurs(element) ==
  LET v == Get(element, Attr("maxOccurs"))
  IN ParseIntV(IF v = StrV(<<"unbounded">>) THEN MaxValue
               ELSE IF Truthy(v) THEN v ELSE NumV(0))
MinOccurs(element) ==
  LET v == Get(element, Attr("minOccurs"))
  IN ParseIntV(IF Truthy(v) THEN v ELSE NumV(0))

\* Check if this type is an array; then the length
CardinalityAndLength(res, name, element, lengths) ==
  LET r1 == IF GreaterThan(MaxOccurs(element), 1)
            THEN Put(res, name \o Type,
                     ArrV(<<Get(res, name \o Type), MinOccurs(element),
                            MaxOccurs(element)>>))
            ELSE res
  IN IF GreaterThan(lengths.maxLength, 0)
     THEN Put(r1, name \o <<"$", "length">>,
              ArrV(<<lengths.minLength, lengths.maxLength>>))
     ELSE r1

\* type = 'object' and the subResult of an inline complexType
ExtractedComplexType(sub) ==
  IF sub.status = "thrown" THEN Unresolved(sub.error)
  ELSE Resolved(StrV(<<"object">>), sub.value, NoLengths)

\* the subResult of a referenced complexType or element
ResolvedSubResult(sub, lengths) ==
  IF sub.status = "thrown" THEN Unresolved(sub.error)
  ELSE Resolved(Undefined, sub.value, lengths)

\* one element of elements.forEach: its keys copied, its name pushed on $order
\* the merge of a child's fragment alone, nothing pushed to $order
MergeElementUnordered(res, subResult, element) ==
  LET sub == Fields(subResult.value)
  IN [k \in (DOMAIN res) \cup (DOMAIN sub) |->
        IF k \in DOMAIN sub THEN sub[k] ELSE res[k]]

MergeElement(res, subResult, element) ==
  LET sub == Fields(subResult.value)
      merged == [k \in (DOMAIN res) \cup (DOMAIN sub) |->
                   IF k \in DOMAIN sub THEN sub[k] ELSE res[k]]
  IN IF Has(merged, Attr("order"))
     THEN [merged EXCEPT ![Attr("order")] =
             ArrV(Append(merged[Attr("order")].items, Prop(element, Attr("name"))))]
     ELSE merged

RECURSIVE ElementToDefinition(_, _, _, _)
RECURSIVE ResolveType(_, _, _, _, _)
RECURSIVE CompileElements(_, _, _, _, _)
RECURSIVE CompileRest(_, _, _, _, _, _)
RECURSIVE ExtractType(_, _, _)

\* The type resolution loop of _elementToDefinition from its pass i on.
\* ctx holds the arguments every call passes on unchanged: targetNamespace,
\* elementFormQualified, attributeFormQualified and typeLookupMap.
ResolveType(i, type, lengths, ctx, elementNamespaces) ==
  IF i = MaxTypeNesting THEN Unresolved(NestingError)
  ELSE IF type.t # "string" THEN Unresolved("TypeError")
  ELSE
    LET typeNamespace == NamespaceLookup(type.s, elementNamespaces)
        subElement == Get(ctx.typeLookupMap, <<"#", "xmlns", ":">> \o type.s)
        subXsdType == Get(ctx.typeLookupMap,
                          <<"#", "xmlns", ":">> \o type.s \o <<"$", "xsdType">>)
    IN IF typeNamespace.status = "thrown" THEN Unresolved(typeNamespace.error)
       ELSE IF typeNamespace.value.ns = StrV(XsdNamespace)
       THEN Resolved(StrV(typeNamespace.value.name), Undefined, lengths)
       ELSE IF ~Truthy(subElement) THEN Unresolved("Could not find type")
       ELSE IF subXsdType \in {StrV(<<"complexType">>), StrV(<<"element">>)}
       THEN ResolvedSubResult(
              ElementToDefinition(subXsdType.s[1], subElement, ctx, elementNamespaces),
              lengths)
       ELSE IF subXsdType # StrV(<<"simpleType">>) THEN Unresolved("Unknown XSD type")
       ELSE IF Truthy(Prop(subElement, <<"restriction">>))
       THEN ResolveType(i + 1,
                        Prop(Prop(subElement, <<"restriction">>), Attr("base")),
                        RestrictionLengths(Prop(subElement, <<"restriction">>), lengths),
                        ctx, elementNamespaces)
       ELSE IF Truthy(Prop(subElement, <<"list">>))
       THEN ResolveType(i + 1, Prop(Prop(subElement, <<"list">>), Attr("itemType")),
                        lengths, ctx, elementNamespaces)
       ELSE Unresolved("Unknown simpleType structure")

\* elements.forEach(...) of the complexType branch, from element i on
CompileElements(elements, i, res, ctx, nss) ==
  IF i > Len(elements) THEN Returned(ObjV(res))
  ELSE CompileRest(elements, i, res, ctx, nss,
                   ElementToDefinition("element", elements[i], ctx, nss))

CompileRest(elements, i, res, ctx, nss, subResult) ==
  IF subResult.status = "thrown" THEN subResult
  ELSE CompileElements(elements, i + 1, MergeElement(res, subResult, elements[i]),
                       ctx, nss)

\* Extract type: the type reference (under `name`), or 'object' and the
\* compiled complexType (under `subResult`), and the lengths
ExtractType(el, ctx, elementNamespaces) ==
  LET simpleType == Get(el, <<"simpleType">>)
      complexType == Get(el, <<"complexType">>)
  IN IF Truthy(Get(el, Attr("type")))
     THEN Resolved(el[Attr("type")], Undefined, NoLengths)
     ELSE IF Truthy(simpleType)
     THEN IF Truthy(Prop(simpleType, <<"restriction">>))
          THEN Resolved(Prop(Prop(simpleType, <<"restriction">>), Attr("base")),
                        Undefined,
                        RestrictionLengths(Prop(simpleType, <<"restriction">>),
                                           NoLengths))
          ELSE IF Truthy(Prop(simpleType, <<"list">>))
          THEN Resolved(Prop(Prop(simpleType, <<"list">>), Attr("itemType")),
                        Undefined, NoLengths)
          ELSE Unresolved("Unknown simpleType structure")
     ELSE IF Truthy(complexType)
             /\ (Truthy(Prop(complexType, <<"all">>))
                 \/ Truthy(Prop(complexType, <<"sequence">>)))
     THEN ExtractedComplexType(
            ElementToDefinition("complexType", complexType, ctx, elementNamespaces))
     ELSE IF Has(el, <<"complexType">>) \/ DOMAIN el = {}
     THEN Resolved(StrV(<<"object">>), Undefined, NoLengths)
     ELSE Unresolved("Unknown element structure")

\* result[element.$name + '$type'] = 'empty' and = 'any' of Extract type
Preset(el, name) ==
  IF Truthy(Get(el, Attr("type"))) \/ Truthy(Get(el, <<"simpleType">>))
     \/ (Truthy(Get(el, <<"complexType">>))
         /\ (Truthy(Prop(Get(el, <<"complexType">>), <<"all">>))
             \/ Truthy(Prop(Get(el, <<"complexType">>), <<"sequence">>))))
  THEN EmptyObj
  ELSE IF Has(el, <<"complexType">>)
  THEN Put(EmptyObj, name \o Type, StrV(<<"empty">>))
  ELSE Put(EmptyObj, name \o Type, StrV(<<"any">>))

\* if (!['object', 'any', 'empty'].includes(type)) { the loop }
ResolveExtracted(extracted, ctx, elementNamespaces) ==
  IF extracted.status = "thrown" THEN extracted
  ELSE IF extracted.name \in {StrV(<<"object">>), StrV(<<"any">>), StrV(<<"empty">>)}
  THEN Resolved(Undefined, extracted.subResult, extracted.lengths)
  ELSE ResolveType(0, extracted.name, extracted.lengths, ctx, elementNamespaces)

\* the element branch from the end of the loop on: the type, the subResult,
\* the namespace, the cardinality and the length
ElementResult(el, name, ctx, targetAlias, resolved) ==
  LET typed == IF resolved.name # Undefined
               THEN Put(Preset(el, name), name \o Type, resolved.name)
               ELSE Preset(el, name)
      merged == MergeSubResult(typed, name, resolved.subResult)
  IN IF resolved.status = "thrown" THEN Thrown(resolved.error)
     ELSE IF ~ctx.elementFormQualified
     THEN Returned(ObjV(CardinalityAndLength(merged, name, el, resolved.lengths)))
     ELSE IF targetAlias.t # "string" THEN Thrown("TypeError")
     ELSE Returned(ObjV(CardinalityAndLength(
                          Put(merged, name \o Namespace, StrV(StripXmlns(targetAlias.s))),
                          name, el, resolved.lengths)))

\* elements = Array.isArray(elements) ? elements : [elements]
AsArray(v) == IF IsArray(v) THEN v.items ELSE <<v>>

\* _elementToDefinition(xsdType, element, targetNamespace, elementFormQualified,
\* attributeFormQualified, typeLookupMap, namespaces)
ElementToDefinition(xsdType, element, ctx, nss) ==
  LET el == Fields(element)
      elementNamespaces == ExtractAndAddNamespaces(el, nss)
      all == Get(el, <<"all">>)
      sequence == Get(el, <<"sequence">>)
  IN IF element.t \in {"undefined", "null"} THEN Thrown("TypeError")
     ELSE IF xsdType = "element"
     THEN ElementResult(el, ToStr(Get(el, Attr("name"))), ctx,
                        Get(NamespaceToAlias(elementNamespaces), ToStr(ctx.targetNamespace)),
                        ResolveExtracted(ExtractType(el, ctx, elementNamespaces),
                                         ctx, elementNamespaces))
     ELSE IF xsdType = "complexType"
     THEN IF Truthy(all)
          THEN CompileElements(AsArray(Prop(all, <<"element">>)), 1, EmptyObj, ctx, nss)
          ELSE IF Truthy(sequence)
          THEN IF Truthy(Prop(sequence, <<"element">>))
               THEN CompileElements(AsArray(Prop(sequence, <<"element">>)), 1,
                                    Put(EmptyObj, Attr("order"), ArrV(<<>>)), ctx, nss)
               ELSE IF Has(Fields(sequence), <<"any">>)
               THEN Returned(ObjV(Put(Put(EmptyObj, Attr("type"), StrV(<<"any">>)),
                                      Attr("order"), ArrV(<<>>))))
               ELSE Thrown("Unknown complexType sequence structure")
          ELSE Returned(Undefined)
     ELSE Returned(ObjV(EmptyObj))

\* typeLookupMap after the types of one kind, from type i on, are added
RECURSIVE AddTypes(_, _, _, _, _)
AddTypes(typeLookupMap, xsdType, types, i, targetNamespaceAlias) ==
  IF i > Len(types) THEN typeLookupMap
  ELSE LET key == (IF xsdType = "element" THEN <<>> ELSE <<"#">>)
                    \o targetNamespaceAlias \o <<":">>
                    \o ToStr(Prop(types[i], Attr("name")))
       IN AddTypes(Put(Put(typeLookupMap, key, types[i]),
                       key \o <<"$", "xsdType">>, StrV(<<xsdType>>)),
                   xsdType, types, i + 1, targetNamespaceAlias)

\* (schema[xsdType] || []): the parse of the schema text makes them arrays
TypesOf(schema, xsdType) ==
  IF IsArray(Get(schema, <<xsdType>>)) THEN schema[<<xsdType>>].items ELSE <<>>

\* the aliases left out of name$attributes
UnsavedAliases == {<<"xmlns", ":", "tns">>, <<"xmlns", ":", "soap">>,
                   <<"xmlns", ":", "xs">>}

\* Save namespaces: result[element.$name + '$attributes'] of a root element
SaveNamespaces(res, name, elementNamespaces) ==
  LET saved == [k \in (DOMAIN elementNamespaces) \ UnsavedAliases |->
                  elementNamespaces[k]]
  IN IF DOMAIN saved = {} THEN Del(res, name \o Attributes)
     ELSE Put(res, name \o Attributes, ObjV(saved))

\* the definition of a root element copied to the result, with
\* result[key + '$namespace'] for the keys copied if the form is unqualified
\* (a definition has keys ending in $namespace of its own only if qualified)
CopyDefinition(res, def, rootAlias, ctx) ==
  LET marks == IF ctx.elementFormQualified THEN {}
               ELSE {k \o Namespace : k \in DOMAIN def}
  IN [k \in (DOMAIN res) \cup (DOMAIN def) \cup marks |->
        IF k \in marks THEN StrV(StripXmlns(rootAlias))
        ELSE IF k \in DOMAIN def THEN def[k] ELSE res[k]]

\* schema.element.forEach(...) of _generateDefinitionXsd, from element i on
RECURSIVE CompileRoots(_, _, _, _, _, _, _)
RECURSIVE CompileRootsRest(_, _, _, _, _, _, _, _)
CompileRoots(elements, i, res, schema, schemaNamespaces, rootAlias, ctx) ==
  IF i > Len(elements) THEN Returned(ObjV(res))
  ELSE IF elements[i].t \in {"undefined", "null"} THEN Thrown("TypeError")
  ELSE CompileRootsRest(elements, i, res, schema, schemaNamespaces, rootAlias, ctx,
                        ElementToDefinition("element", elements[i], ctx,
                                            ExtractAndAddNamespaces(schema, schemaNamespaces)))

CompileRootsRest(elements, i, res, schema, schemaNamespaces, rootAlias, ctx, definition) ==
  IF definition.status = "thrown" THEN definition
  ELSE CompileRoots(elements, i + 1,
                    CopyDefinition(SaveNamespaces(res, ToStr(Prop(elements[i], Attr("name"))),
                                                  ExtractAndAddNamespaces(schema, schemaNamespaces)),
                                   Fields(definition.value), rootAlias, ctx),
                    schema, schemaNamespaces, rootAlias, ctx)

\* _generateDefinitionXsd(schema, namespaces)
GenerateDefinitionXsd(schemaV, nss) ==
  LET schema == Fields(schemaV)
      given == NamespaceToAlias(nss)
      namespaceToAlias ==
        [url \in {XsdNamespace} \cup DOMAIN given |->
           IF url \in DOMAIN given THEN given[url] ELSE StrV(<<"xmlns", ":", "xsd">>)]
      targetNamespace ==
        IF Truthy(Get(schema, Attr("targetNamespace")))
        THEN schema[Attr("targetNamespace")]
        ELSE StrV(XsdNamespace)
      targetNamespaceAlias == Get(namespaceToAlias, ToStr(targetNamespace))
      alias == ToStr(targetNamespaceAlias)
      typeLookupMap ==
        AddTypes(AddTypes(AddTypes(EmptyObj, "simpleType",
                                   TypesOf(schema, "simpleType"), 1, alias),
                          "complexType", TypesOf(schema, "complexType"), 1, alias),
                 "element", TypesOf(schema, "element"), 1, alias)
      ctx == [targetNamespace |-> targetNamespace,
              elementFormQualified |->
                Get(schema, Attr("elementFormDefault")) = StrV(<<"qualified">>),
              attributeFormQualified |->
                Get(schema, <<"attributeFormDefault">>) = StrV(<<"qualified">>),
              typeLookupMap |-> typeLookupMap]
      schemaNamespaces == ExtractAndAddNamespaces(schema, nss)
  IN IF schemaV.t \in {"undefined", "null"} THEN Thrown("TypeError")
     ELSE IF ~Truthy(targetNamespaceAlias)
     THEN Thrown("Unable to find alias for target namespace")
     ELSE IF ~IsArray(Get(schema, <<"element">>)) THEN Thrown("TypeError")
     ELSE CompileRoots(schema[<<"element">>].items, 1, EmptyObj, schema,
                       schemaNamespaces, alias, ctx)

-----------------------------------------------------------------------------
(* Definition inference: _generateDefinitionXml.  The tree it is given is   *)
(* held by value; since it deletes properties of the objects it visits, it  *)
(* yields, beside the definition, the tree as the call leaves it.  The      *)
(* leaves are strings, as a parse without type conversion leaves them.      *)

\* value.match(/^\d+$/) and value.match(/^\d+\.\d+$/)
IsDigitsText(s) == s # <<>> /\ \A i \in 1..Len(s) : s[i] \in Digits
IsFloatText(s) ==
  \E i \in 2..(Len(s) - 1) :
    /\ s[i] = "."
    /\ IsDigitsText(SubSeq(s, 1, i - 1))
    /\ IsDigitsText(SubSeq(s, i + 1, Len(s)))
\* value.match(/^[0-9A-Fa-f]{8,}$/)
IsHexText(s) ==
  LET alphabet == Digits \cup {"A", "B", "C", "D", "E", "F",
                               "a", "b", "c", "d", "e", "f"}
  IN Len(s) >= 8 /\ \A i \in 1..Len(s) : s[i] \in alphabet
\* value.match(/^([A-Za-z0-9+/]{4})*([A-Za-z0-9+/]{4}|[A-Za-z0-9+/]{3}=|[A-Za-z0-9+/]{2}==)$/)
IsBase64Text(s) ==
  LET alphabet ==
        Digits \cup {"+", "/"}
          \cup {"A", "B", "C", "D", "E", "F", "G", "H", "I", "J", "K", "L", "M",
                "N", "O", "P", "Q", "R", "S", "T", "U", "V", "W", "X", "Y", "Z"}
          \cup {"a", "b", "c", "d", "e", "f", "g", "h", "i", "j", "k", "l", "m",
                "n", "o", "p", "q", "r", "s", "t", "u", "v", "w", "x", "y", "z"}
  IN /\ Len(s) >= 4 /\ Len(s) % 4 = 0
     /\ \A i \in 1..(Len(s) - 2) : s[i] \in alphabet
     /\ \/ s[Len(s) - 1] \in alphabet /\ s[Len(s)] \in alphabet
        \/ s[Len(s) - 1] \in alphabet /\ s[Len(s)] = "="
        \/ s[Len(s) - 1] = "=" /\ s[Len(s)] = "="

\* the type guessed for a leaf: << >> when there is not enough information
GuessedType(value, guessBase64Binary) ==
  IF value.t \in {"undefined", "null"} \/ value = StrV(<<>>) THEN <<>>
  ELSE IF value.s = TrueText \/ value.s = FalseText THEN <<"boolean">>
  ELSE IF IsDigitsText(value.s) THEN <<"int">>
  ELSE IF IsFloatText(value.s) THEN <<"float">>
  ELSE IF guessBase64Binary /\ IsHexText(value.s) THEN <<"hexBinary">>
  ELSE IF guessBase64Binary /\ IsBase64Text(value.s) THEN <<"base64Binary">>
  ELSE <<"string">>

\* key.indexOf('$') > 0
DollarInside(key) ==
  /\ \E i \in 2..Len(key) : key[i] = "$"
  /\ key[1] # "$"

\* What one key of the object contributes: the keys it adds to the
\* definition, and whether the object keeps the key, and with what value.
KeyResult(definition, keep, value) ==
  [definition |-> definition, keep |-> keep, value |-> value]

\* the leaf branch: the guessed type, and delete obj[key]
LeafResult(key, value, guessBase64Binary) ==
  LET type == GuessedType(value, guessBase64Binary)
  IN KeyResult(IF type = <<>> THEN EmptyObj ELSE (key \o Type) :> StrV(type),
               FALSE, value)

\* the array branch, given the result for { [key]: obj[key][0] }: the first
\* item is the wrapper's property if the call left it there (an object or an
\* array, visited in place), else it is untouched
ArrayResult(key, value, sub) ==
  LET itemType == Get(sub.definition, key \o Type)
      itemDefinition == Get(sub.definition, key)
      first == IF Has(sub.obj, key) THEN sub.obj[key] ELSE value.items[1]
  IN KeyResult(
       IF Truthy(itemType) THEN (key \o Type) :> ArrV(<<itemType>>)
       ELSE IF Truthy(itemDefinition)
            THEN ((key \o Type) :> ArrV(<<>>)) @@ (key :> itemDefinition)
            ELSE (key \o Type) :> ArrV(<<>>),
       TRUE, ArrV(<<first>> \o Tail(value.items)))

\* the object branch, given the result for obj[key]
ObjectResult(key, sub) ==
  KeyResult(key :> ObjV(sub.definition), TRUE, ObjV(sub.obj))

\* the definition and the object the keys leave together
Collected(obj, per) ==
  [definition |->
     [k \in UNION {DOMAIN per[key].definition : key \in DOMAIN obj} |->
        per[CHOOSE key \in DOMAIN obj : k \in DOMAIN per[key].definition].definition[k]],
   obj |-> [key \in {k \in DOMAIN obj : per[k].keep} |-> per[key].value]]

RECURSIVE GenerateDefinitionXml(_, _)
RECURSIVE InferKey(_, _, _)

\* function _generateDefinitionXml(obj, options)
GenerateDefinitionXml(obj, guessBase64Binary) ==
  Collected(obj, [key \in DOMAIN obj |-> InferKey(key, obj[key], guessBase64Binary)])

\* the body of Object.keys(obj).forEach
InferKey(key, value, guessBase64Binary) ==
  IF DollarInside(key) THEN KeyResult(key :> value, TRUE, value)
  ELSE IF IsArray(value)
  THEN IF value.items = <<>>
       THEN KeyResult((key \o Type) :> ArrV(<<>>), TRUE, value)
       ELSE ArrayResult(key, value,
                        GenerateDefinitionXml(key :> value.items[1], guessBase64Binary))
  ELSE IF IsObjV(value)
  THEN ObjectResult(key, GenerateDefinitionXml(Fields(value), guessBase64Binary))
  ELSE LeafResult(key, value, guessBase64Binary)

-----------------------------------------------------------------------------
(* The definitions and the documents explored. *)

\* an object from its <<key, value>> pairs
ObjOf(pairs) == [k \in {p[1] : p \in pairs} |-> (CHOOSE p \in pairs : p[1] = k)[2]]
S(token) == StrV(<<token>>)
Strs(tokens) == ArrV([i \in 1..Len(tokens) |-> S(tokens[i])])

\* A definition of element structure: types, a declared order, a child
\* declared as an array.  Object 1 is the definition passed to fromXml.
StructureDefinition ==
  << ObjOf({ <<<<"e">> \o Order, Strs(<<"a", "b">>)>>,
             <<<<"e">>, RefV(2)>>,
             <<<<"a">> \o Type, S("int")>>,
             <<<<"a">>, RefV(3)>>,
             <<<<"b">>, RefV(4)>> }),
     ObjOf({ <<<<"a">> \o Type, S("int")>>,
             <<<<"b">> \o Type, S("string")>> }),
     ObjOf({ <<<<"b">> \o Type, S("boolean")>>,
             <<<<"a">> \o Type, StrV(<<"int", "?">>)>> }),
     ObjOf({ <<<<"b">> \o Type, Strs(<<"string">>)>>,
             <<<<"a">> \o Type, S("int")>> }) >>

\* A definition of namespaces and attribute defaults.
AttributeDefinition ==
  << ObjOf({ <<<<"e">> \o Namespace, S("d")>>,
             <<<<"e">> \o Attributes, RefV(2)>>,
             <<<<"e">>, RefV(3)>> }),
     ObjOf({ <<<<"xmlns", ":", "d">>, S("urn:x")>>,
             <<<<"d", ":", "n">>, S("1")>>,
             <<<<"d", ":", "n">> \o Type, S("int")>>,
             <<<<"m">>, S("1")>>,
             <<<<"m">> \o Type, S("int")>> }),
     ObjOf({ <<<<"e">> \o Namespace, S("d")>>,
             <<<<"e">> \o Attributes, RefV(4)>> }),
     ObjOf({ <<<<"m">>, S("1")>> }) >>

\* the attributes a start tag may carry under AttributeDefinition
WireAttributes ==
  { <<<<"xmlns", ":", "w">>, S("urn:x")>>, <<<<"xmlns", ":", "w">>, S("urn:y")>>,
    <<<<"w", ":", "n">>, S("1")>>, <<<<"w", ":", "n">>, S("2")>>,
    <<<<"m">>, S("1")>>, <<<<"m">>, S("2")>> }

\* the attribute maps made of them: no key twice
AttributeMaps ==
  { ObjOf(ps) : ps \in { qs \in SUBSET WireAttributes :
                           \A p, q \in qs : p[1] = q[1] => p = q } }

\* What one parse is given: the definition (as the objects it is made of;
\* none when the caller passes null), the options, and the tag names,
\* attribute maps and text chunks the tokenizer may deliver.
Inputs ==
  { [definition |-> StructureDefinition, inline |-> {TRUE}, convert |-> {TRUE, FALSE},
     names |-> {<<"e">>, <<"a">>, <<"b">>}, attributes |-> {EmptyObj},
     chunks |-> {<<"1">>, <<" ">>}],
    [definition |-> AttributeDefinition, inline |-> {TRUE, FALSE}, convert |-> {TRUE},
     names |-> {<<"e">>, <<"w", ":", "e">>}, attributes |-> AttributeMaps,
     chunks |-> {}],
    [definition |-> <<>>, inline |-> {FALSE}, convert |-> {FALSE},
     names |-> {<<"a">>}, attributes |-> {EmptyObj},
     chunks |-> {<<"1">>}] }

NoCall == [fn |-> "none"]

\* _fromXml up to parser.parse(xml): definitions = [objectDefinition || {}]
InitParserOf(inputs) ==
  /\ input \in inputs
  /\ inlineAttributes \in input.inline
  /\ convertTypes \in input.convert
  /\ heap = (IF input.definition = <<>> THEN <<EmptyObj>> ELSE input.definition)
              \o <<EmptyObj>>
  /\ definitions = <<1>>
  /\ result = Len(heap)
  /\ currentValue = <<>>
  /\ currentObject = result
  /\ currentType = StrV(<<>>)
  /\ objects = <<>>
  /\ names = <<>>
  /\ orders = <<>>
  /\ namespaces = EmptyObj
  /\ definitionNamespaces = EmptyObj
  /\ definitionNamespaceUrls = EmptyObj
  /\ logged = 0
  /\ lastEvent = NoEvent
  /\ open = <<Frame(result, 1, <<>>, NoEvent)>>
  /\ shadowValue = <<>>
  /\ nStart = 0
  /\ nText = 0
  /\ nAttr = 0

InitParser == InitParserOf(Inputs)

Init ==
  /\ InitParser
  /\ call = NoCall

Delivered == nStart + nText + nAttr

\* The tokenizer delivers a start tag: the document has one root element.
Start ==
  \E name \in input.names, attributes \in input.attributes :
    /\ Delivered + 1 + Cardinality(DOMAIN attributes) <= MaxEvents
    /\ Len(open) = 1 => nStart = 0
    /\ StartElement(name, attributes)

\* The tokenizer delivers a chunk of the text of the innermost open element.
Chunk ==
  \E data \in input.chunks :
    /\ Delivered + 1 <= MaxEvents
    /\ Len(open) > 1
    /\ Text(data)

\* The tokenizer closes the innermost open element.
End ==
  /\ Len(open) > 1
  /\ EndElement(Last(open).start.name)

\* An end tag arrives with no element open.
Stray ==
  \E name \in input.names :
    /\ Len(open) = 1
    /\ EndElementUnderflow(name)

Next == Start \/ Chunk \/ End \/ Stray

Spec == Init /\ [][Next]_vars

-----------------------------------------------------------------------------
(* Calls of _convertFromXsdType. *)

\* the longest text coerced
MaxLen == 3

SeqsUpTo(A, n) == UNION {[1..m -> A] : m \in 0..n}

\* the type names, and the types made of them: plain, nullable, and as the
\* first entry of an array type
CoerceNames == {"boolean", "int", "float", "hexBinary", "base64Binary", "string",
                "frobnicate", "dateTime"}
CoerceTypes ==
  UNION {{StrV(<<n>>), StrV(<<n, "?">>), ArrV(<<StrV(<<n>>)>>),
          ArrV(<<StrV(<<n, "?">>), NumV(0), NumV(2)>>)} : n \in CoerceNames}
    \cup {Undefined, ArrV(<<>>)}
CoerceValues ==
  SeqsUpTo({"1", " ", "."}, MaxLen) \cup {TrueText, TrueText \o <<" ">>}

\* no parse is under way
InitCall ==
  /\ InitParser
  /\ input.definition = <<>>
  /\ call = NoCall

\* _convertFromXsdType(type, value) is called, once, and returns
Coerce ==
  \E type \in CoerceTypes, value \in CoerceValues :
    /\ call = NoCall
    /\ call' = [fn |-> "convertFromXsdType", type |-> type, value |-> value,
                status |-> "returned", result |-> ConvertFromXsdType(type, value)]
    /\ UNCHANGED <<input, parserVars>>

NextCoerce == Coerce

SpecCoerce == InitCall /\ [][NextCoerce]_vars

-----------------------------------------------------------------------------
(* Calls of generateDefinition(schema, 'xsd', namespaces). *)

\* the most simpleTypes between an element's type reference and a primitive
MaxChain == 4

\* The schemas: an element `age` whose type reference reaches the primitive
\* xs:base through k simpleTypes T1 .. Tk, each a restriction or each a list,
\* with or without minOccurs and maxOccurs (<< >>: without), declared at the
\* root or in the complexType of a root element `person`.  The content of
\* that complexType is a sequence or an all of the children named, a
\* sequence of an any wildcard alone ("any"), or a sequence of the children
\* and an any wildcard ("mixed"); the schema's elementFormDefault is
\* qualified or absent.
ChainArgs ==
  [k : 0..MaxChain, kind : {"restriction", "list"}, base : {"int", "string"},
   minOccurs : {<<>>, <<"0">>, <<"1">>},
   maxOccurs : {<<>>, <<"1">>, <<"2">>, <<"unbounded">>},
   nested : BOOLEAN, qualified : {FALSE}, content : {"sequence"},
   children : {<<"age">>}]
ContentArgs ==
  [k : {0}, kind : {"restriction"}, base : {"int", "string"},
   minOccurs : {<<>>}, maxOccurs : {<<>>, <<"2">>},
   nested : BOOLEAN, qualified : BOOLEAN,
   content : {"sequence", "all", "any", "mixed"},
   children : {<<"age">>, <<"age", "name">>, <<"name", "age">>}]
XsdArgs == ChainArgs \cup ContentArgs

TypeRef(a, i) ==
  IF i > a.k THEN <<"xs", ":", a.base>> ELSE <<"tns", ":", "T">> \o IntToDigits(i)

SimpleTypeOf(a, i) ==
  ObjV(ObjOf({ <<Attr("name"), StrV(<<"T">> \o IntToDigits(i))>>,
               IF a.kind = "restriction"
               THEN <<<<"restriction">>,
                      ObjV(ObjOf({<<Attr("base"), StrV(TypeRef(a, i + 1))>>}))>>
               ELSE <<<<"list">>,
                      ObjV(ObjOf({<<Attr("itemType"), StrV(TypeRef(a, i + 1))>>}))>> }))

AgeElement(a) ==
  ObjV(ObjOf({ <<Attr("name"), S("age")>>, <<Attr("type"), StrV(TypeRef(a, 1))>> }
             \cup (IF a.minOccurs = <<>> THEN {}
                   ELSE {<<Attr("minOccurs"), StrV(a.minOccurs)>>})
             \cup (IF a.maxOccurs = <<>> THEN {}
                   ELSE {<<Attr("maxOccurs"), StrV(a.maxOccurs)>>})))

NameElement ==
  ObjV(ObjOf({ <<Attr("name"), S("name")>>, <<Attr("type"), StrV(<<"xs", ":", "string">>)>> }))

\* the child elements as the parse of the schema text leaves them: an object
\* if there is one, an array if there are more
ChildElements(a) ==
  LET child(i) == IF a.children[i] = "age" THEN AgeElement(a) ELSE NameElement
  IN IF Len(a.children) = 1 THEN child(1)
     ELSE ArrV([i \in 1..Len(a.children) |-> child(i)])

\* <xs:any/> parses to ''
AnyWildcard == <<<<"any">>, StrV(<<>>)>>

PersonElement(a) ==
  ObjV(ObjOf({ <<Attr("name"), S("person")>>,
               <<<<"complexType">>,
                 ObjV(ObjOf({
                   <<<<IF a.content = "all" THEN "all" ELSE "sequence">>,
                     ObjV(ObjOf((IF a.content = "any" THEN {}
                                 ELSE {<<<<"element">>, ChildElements(a)>>})
                                \cup (IF a.content \in {"any", "mixed"}
                                      THEN {AnyWildcard} ELSE {})))>>}))>> }))

Schema(a) ==
  ObjV(ObjOf({ <<Attr("targetNamespace"), S("urn:t")>>,
               <<<<"$", "xmlns", ":", "xs">>, StrV(XsdNamespace)>>,
               <<<<"$", "xmlns", ":", "tns">>, S("urn:t")>>,
               <<<<"element">>,
                 ArrV(<<IF a.nested THEN PersonElement(a) ELSE AgeElement(a)>>)>> }
             \cup (IF a.qualified
                   THEN {<<Attr("elementFormDefault"), S("qualified")>>} ELSE {})
             \cup (IF a.k = 0 THEN {}
                   ELSE {<<<<"simpleType">>,
                           ArrV([i \in 1..a.k |-> SimpleTypeOf(a, i)])>>})))

\* the namespaces argument
XsdNamespaces == ObjOf({<<<<"xmlns", ":", "tns">>, S("urn:t")>>})

\* generateDefinition(schema, 'xsd', namespaces) is called, once, and returns
\* or throws
Compile ==
  \E a \in XsdArgs :
    LET outcome == GenerateDefinitionXsd(Schema(a), XsdNamespaces)
    IN /\ call = NoCall
       /\ call' = [fn |-> "generateDefinition", args |-> a,
                   status |-> outcome.status, value |-> outcome.value,
                   error |-> outcome.error]
       /\ UNCHANGED <<input, parserVars>>

NextXsd == Compile

SpecXsd == InitCall /\ [][NextXsd]_vars

-----------------------------------------------------------------------------
(* Parses of documents whose attributes the definition does not declare, or
   declares with a type, with and without type conversion. *)

\* AttributeDefinition with a type for the element e at both levels
TypedAttributeDefinition ==
  [AttributeDefinition EXCEPT ![1] = Put(@, <<"e">> \o Type, S("int")),
                              ![3] = Put(@, <<"e">> \o Type, S("int"))]

\* the attributes a start tag may carry: a declaration of the alias w, for
\* the url of the definition or another; m, declared with a default and a
\* type; u and w:u, which the definition does not declare, empty or not
UndeclaredWireAttributes ==
  { <<<<"xmlns", ":", "w">>, S("urn:x")>>, <<<<"xmlns", ":", "w">>, S("urn:y")>>,
    <<<<"m">>, S("2")>>,
    <<<<"w", ":", "u">>, StrV(<<>>)>>, <<<<"w", ":", "u">>, S("1")>>,
    <<<<"u">>, StrV(<<>>)>> }

UndeclaredAttributeMaps ==
  { ObjOf(ps) : ps \in { qs \in SUBSET UndeclaredWireAttributes :
                           \A p, q \in qs : p[1] = q[1] => p = q } }

AttributeInputs ==
  { [definition |-> TypedAttributeDefinition, inline |-> {TRUE, FALSE},
     convert |-> {TRUE, FALSE}, names |-> {<<"e">>},
     attributes |-> UndeclaredAttributeMaps, chunks |-> {<<"1">>}] }

InitAttributes ==
  /\ InitParserOf(AttributeInputs)
  /\ call = NoCall

SpecAttributes == InitAttributes /\ [][Next]_vars

-----------------------------------------------------------------------------
(* Calls of generateDefinition(obj, 'xml', {}, options) on a parsed tree. *)

\* the calls made on one tree
MaxCalls == 2

\* The trees: a root element e that is a leaf with some text, an object with
\* such a leaf a, or an empty object (`item`); or an array of one such item,
\* or of it and a second one (`more`: "none", "leaf" or "object"); with or
\* without the attributes a parse that is not inline puts beside it.
InferArgs ==
  [item : {"leaf", "object", "empty"},
   text : { <<>>, TrueText, <<"1">>, <<"1", ".", "5">>, <<"x">>,
            <<"A", "0", "A", "0", "A", "0", "A", "0">>, <<"a", "b", "c", "=">> },
   array : BOOLEAN,
   more : {"none"}, attributes : BOOLEAN, guessBase64Binary : BOOLEAN]
    \cup [item : {"leaf", "object"}, text : {<<"1">>, <<"x">>}, array : {TRUE},
          more : {"leaf", "object"}, attributes : {FALSE},
          guessBase64Binary : BOOLEAN]
InferTree(a) ==
  LET item == CASE a.item = "leaf" -> StrV(a.text)
                [] a.item = "object" -> ObjV(<<"a">> :> StrV(a.text))
                [] OTHER -> ObjV(EmptyObj)
      items == CASE a.more = "leaf" -> <<item, S("x")>>
                 [] a.more = "object" -> <<item, ObjV(<<"a">> :> S("1"))>>
                 [] OTHER -> <<item>>
      e == <<"e">> :> (IF a.array THEN ArrV(items) ELSE item)
  IN IF a.attributes
     THEN e @@ ((<<"e">> \o Attributes) :> ObjV(<<"m">> :> S("1")))
     ELSE e

\* no call made yet: the tree and the options the caller holds
InitInfer ==
  /\ InitParser
  /\ input.definition = <<>>
  /\ \E a \in InferArgs :
       call = [fn |-> "generateDefinitionXml", n |-> 0, obj |-> InferTree(a),
               guessBase64Binary |-> a.guessBase64Binary, before |-> InferTree(a),
               value |-> Undefined, previous |-> Undefined]

\* generateDefinition(obj, 'xml', {}, options) is called on the tree, as the
\* calls before left it, and returns
Infer ==
  LET outcome == GenerateDefinitionXml(call.obj, call.guessBase64Binary)
  IN /\ call.fn = "generateDefinitionXml"
     /\ call.n < MaxCalls
     /\ call' = [call EXCEPT !.n = @ + 1, !.obj = outcome.obj, !.before = call.obj,
                             !.value = ObjV(outcome.definition),
                             !.previous = call.value]
     /\ UNCHANGED <<input, parserVars>>

NextInfer == Infer

SpecInfer == InitInfer /\ [][NextInfer]_vars

-----------------------------------------------------------------------------
(* What the parsing engine is claimed to do. *)

\* deep equality of two values of heap h
RECURSIVE DeepEq(_, _, _)
DeepEq(h, v, w) ==
  IF v.t = "object" /\ w.t = "object"
  THEN /\ DOMAIN h[v.r] = DOMAIN h[w.r]
       /\ \A k \in DOMAIN h[v.r] : DeepEq(h, h[v.r][k], h[w.r][k])
  ELSE IF v.t = "array" /\ w.t = "array"
       THEN /\ Len(v.items) = Len(w.items)
            /\ \A i \in 1..Len(v.items) : DeepEq(h, v.items[i], w.items[i])
       ELSE v = w

\* an end tag has just closed an element; the element, as the observer saw it
JustClosed == lastEvent.kind = "end"
ClosedKid == Last(Last(open).kids)
\* the closed children of the innermost open element that bear this name
Occurrences(name) ==
  {i \in 1..Len(Last(open).kids) : Last(open).kids[i].name = name}
\* the definition the children of the innermost open element are looked up in
ActiveDefinition == heap[Last(definitions)]
DeclaredArray(name) == IsArray(Get(ActiveDefinition, name \o Type))

\* C1 (array promotion): when the second of exactly two siblings named N
\* closes under a parent that does not declare N as an array, N is an array
\* of two entries, and two occurrences with the same tag, attributes and
\* content (each of which, parsed as the only N, gives the same value) have
\* equal entries, the inline text key "$" included.
C1_ArrayPromotion ==
  (JustClosed /\ Cardinality(Occurrences(ClosedKid.name)) = 2
     /\ ~DeclaredArray(ClosedKid.name)) =>
    LET name == ClosedKid.name
        v == Get(heap[currentObject], name)
        first == Last(open).kids[CHOOSE i \in Occurrences(name) :
                                   \A j \in Occurrences(name) : i <= j]
    IN /\ IsArray(v)
       /\ Len(v.items) = 2
       /\ (first.start = ClosedKid.start /\ first.trace = ClosedKid.trace)
            => DeepEq(heap, v.items[1], v.items[2])

\* the child names of the element just closed are distinct and at least two
DistinctChildren ==
  /\ Len(ClosedKid.children) >= 2
  /\ \A i, j \in 1..Len(ClosedKid.children) :
       ClosedKid.children[i] = ClosedKid.children[j] => i = j

\* C2 (ordering suppression): when an element E, the first of its name under
\* its parent, closes having had at least two distinct, non-repeating child
\* names, the enclosing object has E$order exactly if the observed order
\* differs from the enclosing definition's E$order (or none is declared), and
\* E$order is then the observed order.
C2_OrderingSuppression ==
  (JustClosed /\ DistinctChildren /\ Cardinality(Occurrences(ClosedKid.name)) = 1) =>
    LET name == ClosedKid.name
        observed == NamesV(ClosedKid.children)
        declared == Get(ActiveDefinition, name \o Order)
        enclosing == heap[currentObject]
    IN /\ Has(enclosing, name \o Order) <=> (declared # observed)
       /\ Has(enclosing, name \o Order) => enclosing[name \o Order] = observed

\* a start tag has just been handled: its name, alias and enclosing object
JustStarted == lastEvent.kind = "start"
StartedName == LocalName(lastEvent.name)
StartedAlias == NsAlias(lastEvent.name)
Enclosing == heap[Last(objects)]
\* the definition the started element was looked up in, and its attributes
StartedDefinition == heap[Last(open).definition]
StartedDefinitionAttributes ==
  DefinitionAttributes(heap, StartedDefinition, StartedName)

\* The attributes of the started element that reached the output: the "$"
\* keys of its object (inline), or the attribute object the start tag added
\* under name$attributes of the enclosing object (not inline).
Retained ==
  IF inlineAttributes
  THEN LET keys == {k \in DOMAIN heap[currentObject] : k[1] = "$"}
       IN [a \in {Tail(k) : k \in keys} |-> heap[currentObject][<<"$">> \o a]]
  ELSE LET v == Get(Enclosing, StartedName \o Attributes)
           last == IF IsArray(v) THEN Last(v.items) ELSE v
       IN IF last = RefV(currentObject + 1) THEN heap[currentObject + 1] ELSE EmptyObj

\* the name a wire attribute has in the definition: itself when unqualified,
\* else the definition's alias of the url its alias is bound to (<< >> if none)
DeclaredAttribute(key) ==
  LET parts == Split(key)
  IN IF Len(parts) = 1 THEN key
     ELSE LET alias == Get(definitionNamespaceUrls, ToStr(Get(namespaces, parts[1])))
          IN IF parts[1] # <<"xmlns">> /\ Truthy(alias)
             THEN ToStr(alias) \o <<":">> \o parts[2]
             ELSE <<>>

\* C3 (attribute default elision): of the attributes of a start tag that the
\* definition can name, one whose value is the declared default is absent
\* from the output, and one whose value differs is present, coerced by the
\* $type the definition declares for it if it declares one.
C3_AttributeDefaultElision ==
  JustStarted =>
    \A key \in DOMAIN lastEvent.attributes :
      LET declared == DeclaredAttribute(key)
          value == lastEvent.attributes[key]
          default == Get(StartedDefinitionAttributes, declared)
          type == Get(StartedDefinitionAttributes, declared \o Type)
      IN declared # <<>> =>
           IF value = default
           THEN ~Has(Retained, key)
           ELSE /\ Has(Retained, key)
                /\ Truthy(type) => Retained[key] = ConvertFromXsdType(type, value.s)

\* C4 (namespace transparency): a start tag with a wire alias emits the
\* foreign-namespace marker exactly if the url bound to the alias differs
\* from the url the definition expects for the element; the marker is the
\* wire alias, on the element's object (inline) or as name$namespace of the
\* enclosing object (not inline), which is otherwise left as it was.
C4_NamespaceTransparency ==
  [][(nStart' = nStart + 1 /\ Truthy(NsAlias(lastEvent'.name))) =>
       LET name == LocalName(lastEvent'.name)
           alias == NsAlias(lastEvent'.name)
           wireUrl == Get(namespaces', ToStr(alias))
           expected == Get(definitionNamespaces',
                           ToStr(Get(heap[Last(definitions)], name \o Namespace)))
           element == heap'[currentObject']
           before == Get(heap[currentObject], name \o Namespace)
           after == Get(heap'[currentObject], name \o Namespace)
       IN IF inlineAttributes
          THEN /\ Has(element, InlineNamespace) <=> (wireUrl # expected)
               /\ Has(element, InlineNamespace) => element[InlineNamespace] = alias
               /\ after = before
          ELSE /\ ~Has(element, InlineNamespace)
               /\ after = IF wireUrl # expected THEN alias ELSE before]_vars

\* an element whose alias is bound on the wire to the url the definition
\* expects under another alias has been started, and carries no marker
C4_Witness ==
  /\ JustStarted
  /\ Truthy(StartedAlias)
  /\ Truthy(Get(namespaces, ToStr(StartedAlias)))
  /\ Get(namespaces, ToStr(StartedAlias))
       = Get(definitionNamespaces, ToStr(Get(StartedDefinition, StartedName \o Namespace)))
  /\ StartedAlias # Get(StartedDefinition, StartedName \o Namespace)
  /\ ~Has(heap[currentObject], InlineNamespace)
  /\ ~Has(Enclosing, StartedName \o Namespace)

\* C6 (frame stack): the stacks objects and names are as deep as there are
\* open elements and definitions is one deeper; each frame holds the object
\* and the definition that were current when its start tag arrived; an end
\* tag makes those of the element it closes current again, and the last end
\* tag makes the result current.
C6_FrameStack ==
  /\ Len(objects) = Len(open) - 1
  /\ Len(names) = Len(open) - 1
  /\ Len(definitions) = Len(open)
  /\ \A i \in 1..Len(objects) :
       /\ objects[i] = open[i + 1].object
       /\ names[i] = open[i + 1].name
       /\ definitions[i] = open[i + 1].definition
  /\ JustClosed =>
       /\ currentObject = ClosedKid.object
       /\ Last(definitions) = ClosedKid.definition
       /\ Len(open) = 1 => currentObject = result

\* an element nested in another has been closed, and then the outer one
C6_Witness ==
  /\ JustClosed
  /\ Len(open) = 1
  /\ Len(ClosedKid.children) > 0
  /\ currentObject = result

\* C7 (end-tag underflow): an end tag with no element open changes nothing
\* but the text buffer, which it clears, and the log; the text an open
\* element reads is what it would be had no such end tag come.
C7_Underflow ==
  [][/\ logged' # logged =>
          /\ UNCHANGED <<heap, result, currentObject, currentType, objects, names,
                         definitions, orders, namespaces, definitionNamespaces,
                         definitionNamespaceUrls>>
          /\ currentValue' = <<>>
     /\ Len(objects') > 0 => currentValue' = shadowValue']_vars

\* a stray end tag came before the root element, which was then parsed
C7_Witness ==
  /\ logged > 0
  /\ JustClosed
  /\ Len(open) = 1
  /\ Get(heap[result], ClosedKid.name).t = "object"

\* C8 (the definition is read only): every object of the definition passed
\* to fromXml is what it was before the call.
C8_DefinitionUnchanged ==
  \A i \in 1..Len(input.definition) : heap[i] = input.definition[i]

\* a document whose elements the definition does not all describe is parsed
C8_Witness ==
  /\ input.definition # <<>>
  /\ JustClosed
  /\ Len(open) = 1
  /\ nStart >= 2
  /\ Len(heap) > Len(input.definition) + nStart + 1

\* a call of _convertFromXsdType has returned or thrown
CoerceCall == call.fn = "convertFromXsdType"
\* the type it was given, array-unwrapped, and without its nullable mark
UnwrappedType ==
  IF IsArray(call.type)
  THEN IF call.type.items = <<>> THEN Undefined ELSE call.type.items[1]
  ELSE call.type
NullableMarked ==
  UnwrappedType.t = "string" /\ UnwrappedType.s # <<>> /\ Last(UnwrappedType.s) = "?"
BaseTypeName == IF NullableMarked THEN Front(UnwrappedType.s) ELSE UnwrappedType.s
UnknownTypeName == ~(Len(BaseTypeName) = 1 /\ BaseTypeName[1] \in KnownTypes)

XsdCall == call.fn = "generateDefinition"
\* the definition `age` is compiled into, and the type recorded there
AgeDefinition ==
  IF call.args.nested THEN Fields(Prop(call.value, <<"person">>))
  ELSE Fields(call.value)
AgeType == Get(AgeDefinition, <<"age">> \o Type)
\* the schema compiled declares `age`
AgeDeclared == ~(call.args.nested /\ call.args.content = "any")
DeclaredMin == IF call.args.minOccurs = <<>> THEN 0 ELSE DigitsToInt(call.args.minOccurs)

\* C9 (cardinality): the type recorded for a compiled element is the array
\* [elementType, minOccurs, maxOccurs] exactly if maxOccurs > 1, where an
\* absent minOccurs is 0 and maxOccurs "unbounded" is the unbounded
\* sentinel; otherwise it is the plain type name.
C9_Cardinality ==
  (XsdCall /\ AgeDeclared /\ call.status = "returned") =>
    LET max == call.args.maxOccurs
        base == StrV(<<call.args.base>>)
    IN IF max = <<"unbounded">>
       THEN AgeType = ArrV(<<base, NumV(DeclaredMin), MaxValue>>)
       ELSE IF max # <<>> /\ DigitsToInt(max) > 1
       THEN AgeType = ArrV(<<base, NumV(DeclaredMin), NumV(DigitsToInt(max))>>)
       ELSE AgeType = base

\* C10 (indirection bound): a type reference that reaches a primitive
\* through k simpleTypes compiles, and records the primitive, if k <= 3, and
\* fails with the nesting error if k >= 4.
C10_IndirectionBound ==
  (XsdCall /\ AgeDeclared) =>
    IF call.args.k <= 3
    THEN /\ call.status = "returned"
         /\ (IF IsArray(AgeType) THEN AgeType.items[1] ELSE AgeType)
              = StrV(<<call.args.base>>)
    ELSE /\ call.status = "thrown"
         /\ call.error = NestingError

\* the root element of the schema compiled, and the children compiled under it
RootName == IF call.args.nested THEN <<"person">> ELSE <<"age">>
CompiledChildren ==
  IF call.args.nested /\ call.args.content # "any"
  THEN {<<call.args.children[i]>> : i \in 1..Len(call.args.children)}
  ELSE {}
PersonDefinition == Fields(Prop(call.value, <<"person">>))
EndsWith(key, suffix) ==
  Len(key) >= Len(suffix)
    /\ SubSeq(key, Len(key) - Len(suffix) + 1, Len(key)) = suffix

\* C11 (namespace recording): in the definition compiled from a schema whose
\* elementFormDefault is qualified, every element, at the root and under
\* it, has the key E$namespace holding the alias of the target namespace;
\* from any other schema, the root element has it and no other key of the
\* definition, at any depth, ends in $namespace.
C11_NamespaceRecording ==
  (XsdCall /\ call.status = "returned" /\ call.args.content \in {"sequence", "all"}) =>
    IF call.args.qualified
    THEN /\ Get(Fields(call.value), RootName \o Namespace) = S("tns")
         /\ \A c \in CompiledChildren : Get(PersonDefinition, c \o Namespace) = S("tns")
    ELSE /\ Get(Fields(call.value), RootName \o Namespace) = S("tns")
         /\ \A key \in DOMAIN Fields(call.value) :
              EndsWith(key, Namespace) => key = RootName \o Namespace
         /\ \A key \in DOMAIN PersonDefinition : ~EndsWith(key, Namespace)

\* C12 (nullable and array-wrapped coercion): a call of the coercion changes
\* nothing but its result; with an array type it returns what it returns
\* with the array's first entry; with a type name followed by the nullable
\* mark it returns null for a text that is empty or all blanks and otherwise
\* what it returns with the type name; with "boolean" it returns true
\* exactly for the text "true".
C12_NullableAndArrayCoercion ==
  [][(call' # call /\ call'.fn = "convertFromXsdType") =>
       LET type == call'.type
           text == call'.value
           blank == \A i \in 1..Len(text) : text[i] = " "
       IN /\ UNCHANGED <<input, parserVars>>
          /\ (IsArray(type) /\ type.items # <<>>) =>
               call'.result = ConvertFromXsdType(type.items[1], text)
          /\ (type.t = "string" /\ Len(type.s) = 2 /\ type.s[2] = "?") =>
               call'.result = IF blank THEN Null
                              ELSE ConvertFromXsdType(StrV(<<type.s[1]>>), text)
          /\ type = StrV(<<"boolean">>) =>
               call'.result = BoolV(text = TrueText)]_vars

\* an array type whose first entry is a nullable integer met a blank text
C12_Witness ==
  /\ CoerceCall
  /\ call.type = ArrV(<<StrV(<<"int", "?">>), NumV(0), NumV(2)>>)
  /\ call.value = <<" ", " ">>
  /\ call.result = Null

\* the text chunks of a trace that were delivered outside every child
\* element, from event i on, in order; depth counts the children open
RECURSIVE DirectTextFrom(_, _, _)
DirectTextFrom(trace, i, depth) ==
  IF i > Len(trace) THEN <<>>
  ELSE CASE trace[i].kind = "start" -> DirectTextFrom(trace, i + 1, depth + 1)
         [] trace[i].kind = "end" -> DirectTextFrom(trace, i + 1, depth - 1)
         [] OTHER -> (IF depth = 0 THEN trace[i].data ELSE <<>>)
                       \o DirectTextFrom(trace, i + 1, depth)
\* the text chunks that end a trace: those after the last child
RECURSIVE TailText(_)
TailText(trace) ==
  IF trace = <<>> \/ Last(trace).kind # "text" THEN <<>>
  ELSE TailText(Front(trace)) \o Last(trace).data

\* where the output holds the element just closed, and the value the end
\* tag assigned to it: the slot itself, or the inline text key of its object
\* (undefined if the end tag assigned none)
ClosedSlot ==
  LET v == Get(heap[currentObject], ClosedKid.name)
  IN IF IsArray(v) THEN Last(v.items) ELSE v
AssignedValue ==
  IF ClosedSlot.t = "object" THEN Get(heap[ClosedSlot.r], InlineText) ELSE ClosedSlot

\* C13 (type used at an end tag): with type conversion enabled, the value an
\* end tag assigns to element E is the coercion, by the $type the enclosing
\* definition declares for E, of the text that follows E's last child.
C13_TypeAtEndElement ==
  (JustClosed /\ convertTypes /\ AssignedValue # Undefined) =>
    AssignedValue = ConvertFromXsdType(Get(ActiveDefinition, ClosedKid.name \o Type),
                                       TailText(ClosedKid.trace))

\* C14 (text accumulation): without type conversion, the value an end tag
\* assigns to an element is the concatenation, in order, of all the text
\* chunks delivered while the element was the innermost open one; it
\* assigns none only if that text is blank.
C14_TextAccumulation ==
  (JustClosed /\ ~convertTypes) =>
    LET text == DirectTextFrom(ClosedKid.trace, 1, 0)
    IN IF AssignedValue = Undefined THEN IsBlank(text)
       ELSE AssignedValue = StrV(text)

\* the distinct names of a sequence of names, in order of first occurrence
RECURSIVE FirstOccurrences(_)
FirstOccurrences(s) ==
  IF s = <<>> THEN <<>>
  ELSE LET rest == FirstOccurrences(Front(s))
       IN IF \E i \in 1..Len(rest) : rest[i] = Last(s) THEN rest
          ELSE Append(rest, Last(s))
\* the names of the children closed so far under the innermost open element
ChildNames == [i \in 1..Len(Last(open).kids) |-> Last(open).kids[i].name]

\* C15 (observed child order): when an end tag closes an element that had
\* children, the order list it pops for them holds each distinct child name
\* exactly once, in order of first occurrence.
C15_ObservedChildOrder ==
  [][(lastEvent'.kind = "end" /\ Len(open') < Len(open) /\ ChildNames # <<>>) =>
       /\ Len(names) < Len(orders)
       /\ Last(orders) = FirstOccurrences(ChildNames)]_vars

\* the children of that name closed so far under the innermost open element
OccurrenceSeq(name) == SelectSeq(Last(open).kids, LAMBDA kid : kid.name = name)
\* how many of the names are this one
CountOf(name, children) == Cardinality({i \in 1..Len(children) : children[i] = name})
\* the definition the children of the element just closed were looked up in
ClosedDefinition ==
  LET d == Get(ActiveDefinition, ClosedKid.name)
  IN IF d.t = "object" THEN heap[d.r] ELSE EmptyObj

\* C16 (declared arrays): for a name N the active definition declares
\* array-typed, (1) after a start tag of N the enclosing object holds under N
\* an array with one entry per N started so far under that parent; (2) after
\* an end tag of N it is an array with one entry per occurrence, and the
\* entry of the k-th occurrence, if that was a leaf without attributes, is
\* the value of its own text; (3) when the parent closes, its object holds
\* under N an array as long as the number of its N children.
C16_DeclaredArrays ==
  /\ (JustStarted /\ IsArray(Get(StartedDefinition, StartedName \o Type))) =>
       LET v == Get(Enclosing, StartedName)
           before == CountOf(StartedName,
                             [i \in 1..Len(open[Len(open) - 1].kids) |->
                                open[Len(open) - 1].kids[i].name])
       IN IsArray(v) /\ Len(v.items) = before + 1
  /\ (JustClosed /\ DeclaredArray(ClosedKid.name)) =>
       LET v == Get(heap[currentObject], ClosedKid.name)
           occ == OccurrenceSeq(ClosedKid.name)
       IN /\ IsArray(v)
          /\ Len(v.items) = Len(occ)
          /\ \A k \in 1..Len(occ) :
               (occ[k].children = <<>> /\ occ[k].start.attributes = EmptyObj) =>
                 v.items[k] = ConvertedValue(convertTypes,
                                             Get(ActiveDefinition, ClosedKid.name \o Type),
                                             TailText(occ[k].trace))
  /\ (JustClosed /\ ClosedKid.children # <<>> /\ ClosedSlot.t = "object") =>
       \A i \in 1..Len(ClosedKid.children) :
         LET name == ClosedKid.children[i]
             v == Get(heap[ClosedSlot.r], name)
         IN IsArray(Get(ClosedDefinition, name \o Type)) =>
              IsArray(v) /\ Len(v.items) = CountOf(name, ClosedKid.children)

\* a parent has closed with two children of a declared array name, the first
\* with text and the second empty, and with a single such child
C16_Witness ==
  /\ JustClosed /\ ClosedKid.children = <<<<"b">>, <<"b">>>> /\ ClosedSlot.t = "object"
  /\ IsArray(Get(ClosedDefinition, <<"b">> \o Type))
  /\ Get(heap[ClosedSlot.r], <<"b">>) = ArrV(<<StrV(<<"1">>), StrV(<<>>)>>)

\* the start tags of the elements named like the one just started, under
\* the same parent, in document order, the one just started last
SiblingStarts ==
  LET siblings == SelectSeq(open[Len(open) - 1].kids,
                            LAMBDA kid : kid.name = StartedName)
  IN [i \in 1..Len(siblings) |-> siblings[i].start] \o <<lastEvent>>
\* a start tag with an attribute that survives the filter: m="2" differs from
\* every default the definition declares for m
CarriesAttribute(ev) == Get(ev.attributes, <<"m">>) = S("2")

\* C17 (non-inline attributes of repeated elements): not inline, after the
\* start tag of the second or a later element of a name under one parent, if
\* any of these occurrences carries a surviving attribute, name$attributes
\* of the enclosing object is an array.
C17_RepeatedAttributes ==
  (JustStarted /\ ~inlineAttributes /\ Len(SiblingStarts) >= 2
     /\ \E i \in 1..Len(SiblingStarts) : CarriesAttribute(SiblingStarts[i])) =>
    IsArray(Get(Enclosing, StartedName \o Attributes))

\* the start tags of the document so far that declare the alias, in order
Declarations(alias) ==
  SelectSeq(open[1].trace,
            LAMBDA ev : ev.kind = "start"
                        /\ (<<"xmlns", ":">> \o alias) \in DOMAIN ev.attributes)
\* the aliases a map of attributes declares
DeclaredAliases(attributes) == {XmlnsMatch(k) : k \in DOMAIN attributes} \ {<<>>}
\* the mapping after a start tag whose attributes are these: their
\* declarations on top of the mapping before
MergedInto(after, before, attributes) ==
  /\ DOMAIN after = DOMAIN before \cup DeclaredAliases(attributes)
  /\ \A a \in DOMAIN after :
       after[a] = IF a \in DeclaredAliases(attributes)
                  THEN attributes[<<"xmlns", ":">> \o a]
                  ELSE before[a]

\* C18 (namespace mappings): the wire-declared mapping holds exactly the
\* aliases declared by the start tags so far, closed elements included, each
\* with the url of its last declaration in document order; every step that
\* is not a start tag (end tags in particular) leaves it and the
\* definition-declared mapping unchanged, and a start tag adds to each the
\* declarations of the tag, or of the definition's attributes for the
\* element, replacing the url of an alias declared again and removing none.
C18_NamespaceMaps ==
  /\ [](\A alias \in {<<"w">>, <<"d">>} :
          LET decl == Declarations(alias)
          IN IF decl = <<>> THEN alias \notin DOMAIN namespaces
             ELSE /\ alias \in DOMAIN namespaces
                  /\ namespaces[alias] = Last(decl).attributes[<<"xmlns", ":">> \o alias])
  /\ [][/\ DOMAIN namespaces \subseteq DOMAIN namespaces'
        /\ DOMAIN definitionNamespaces \subseteq DOMAIN definitionNamespaces'
        /\ nStart' = nStart => UNCHANGED <<namespaces, definitionNamespaces>>
        /\ nStart' # nStart =>
             /\ MergedInto(namespaces', namespaces, lastEvent'.attributes)
             /\ MergedInto(definitionNamespaces', definitionNamespaces,
                           StartedDefinitionAttributes')]_vars

\* an element uses an alias that only an already closed sibling declared,
\* and the alias resolves
C18_Witness ==
  /\ JustStarted /\ StartedAlias = S("w")
  /\ DeclaredAliases(lastEvent.attributes) = {}
  /\ \E i \in 1..Len(open[Len(open) - 1].kids) :
       <<"w">> \in DeclaredAliases(open[Len(open) - 1].kids[i].start.attributes)
  /\ \A i \in 1..(Len(open) - 1) : DeclaredAliases(open[i + 1].start.attributes) = {}
  /\ Get(namespaces, <<"w">>) = S("urn:x")

\* what the element `age` of the schema compiled is compiled to on its own,
\* as the root element of the same schema
AgeAlone ==
  Get(Fields(GenerateDefinitionXsd(Schema([call.args EXCEPT !.nested = FALSE]),
                                   XsdNamespaces).value),
      <<"age">> \o Type)

\* C19 (compiled child ordering): the definition compiled from an element
\* `person` whose complexType is a sequence has person$order, the names of
\* the child elements in the order of their declaration; from one whose
\* complexType is an all it has no person$order; in both cases the type of
\* every child is recorded under person.
C19_CompiledChildOrder ==
  (XsdCall /\ call.status = "returned" /\ call.args.nested
     /\ call.args.content \in {"sequence", "all"}) =>
    LET children == call.args.children
        root == Fields(call.value)
    IN /\ IF call.args.content = "sequence"
          THEN Get(root, <<"person">> \o Order) = Strs(children)
          ELSE ~Has(root, <<"person">> \o Order)
       /\ \A i \in 1..Len(children) :
            Get(PersonDefinition, <<children[i]>> \o Type) =
              IF children[i] = "age" THEN AgeAlone ELSE S("string")

\* a sequence of name, then age, has been compiled
C19_Witness ==
  /\ XsdCall /\ call.status = "returned" /\ call.args.nested
  /\ call.args.content = "sequence" /\ call.args.children = <<"name", "age">>
  /\ Get(Fields(call.value), <<"person">> \o Order) = Strs(<<"name", "age">>)
  /\ Get(PersonDefinition, <<"age">> \o Type) # Undefined

\* C20 (any wildcard): the definition compiled from an element `person`
\* whose complexType is a sequence holding an any wildcard, alone or beside
\* element declarations, has person$type "any" and no object under person.
C20_AnyWildcard ==
  (XsdCall /\ call.status = "returned" /\ call.args.nested
     /\ call.args.content \in {"any", "mixed"}) =>
    /\ Get(Fields(call.value), <<"person">> \o Type) = S("any")
    /\ ~Has(Fields(call.value), <<"person">>)

\* C21 (attributes without a declared default): after a start tag, every
\* attribute of the tag for which the definition declares no default, other
\* than an xmlns declaration of a url the definition declares, is in the
\* output, whatever its value.
C21_UndeclaredAttributesRetained ==
  JustStarted =>
    \A key \in DOMAIN lastEvent.attributes :
      LET declared == DeclaredAttribute(key)
          value == lastEvent.attributes[key]
          declaration == Split(key)[1] = <<"xmlns">> /\ Len(Split(key)) > 1
      IN (/\ declared = <<>> \/ ~Has(StartedDefinitionAttributes, declared)
          /\ ~(declaration /\ Truthy(Get(definitionNamespaceUrls, ToStr(value))))) =>
           Has(Retained, key)

\* C22 (convertTypes disabled): without type conversion, the attributes a
\* start tag leaves in the output have the strings of the wire as values, and
\* the value an end tag assigns to an element is the text of its buffer,
\* whatever $type the definition declares for the attribute or the element.
C22_RawValues ==
  ~convertTypes =>
    /\ JustStarted =>
         \A key \in DOMAIN Retained \cap DOMAIN lastEvent.attributes :
           Retained[key] = lastEvent.attributes[key]
    /\ (JustClosed /\ AssignedValue # Undefined) =>
         AssignedValue = StrV(TailText(ClosedKid.trace))

\* generateDefinition in xml mode has been called on the tree
InferCall == call.fn = "generateDefinitionXml" /\ call.n >= 1

\* C23 (definition inference does not modify its input): a call of
\* generateDefinition in xml mode leaves the tree it is given as it was, and
\* a second call on the same tree returns the definition the first returned.
C23_InferenceLeavesInput ==
  InferCall =>
    /\ call.obj = call.before
    /\ call.n >= 2 => call.value = call.previous

====
